---- MODULE Spec2Model ----
(***************************************************************************)
(* git-of-theseus, analyze.py: the analysis of a repository's history.     *)
(*                                                                         *)
(* The repository (the commit graph, each commit's tree, the outcome of    *)
(* each blame call) is the environment; analyze() is the program.  A tree  *)
(* maps a path to the file's lines, and each line carries the commit that  *)
(* introduced it, which is what `git blame` reports for it.                *)
(***************************************************************************)
EXTENDS Integers, Sequences, FiniteSets, TLC

VARIABLES
    commits,          \* the repository: commit id (hexsha) -> commit object
    pc,               \* position of analyze(): the phase it is in
    branch,           \* parameter `branch`: the commit the branch names
    head,             \* repo.head.commit
    interval,         \* parameter `interval`
    all_filetypes,    \* parameter `all_filetypes`
    only,             \* parameter `only`
    ignore,           \* parameter `ignore`
    commit2cohort,
    commit2timestamp,
    curves_set,
    master_commits,
    ok_entry_paths,
    curves,
    ts,
    file_histograms,
    last_commit,
    commit_history,
    trace,            \* per processed checkpoint: the loop body's locals
    ret               \* the last value entry_path_ok returned

vars == <<commits, pc, branch, head, interval, all_filetypes, only, ignore,
          commit2cohort, commit2timestamp, curves_set, master_commits,
          ok_entry_paths, curves, ts, file_histograms, last_commit,
          commit_history, trace, ret>>

(***************************************************************************)
(* Bounds of the model.                                                    *)
(***************************************************************************)
MaxCommits == 4        \* commits in the repository
MaxLines == 3          \* lines in one file
MaxInterval == 1       \* largest `interval`
MaxFailures == 1       \* blame calls that raise in one run
MaxDate == 4           \* largest committed_date of the sampler's histories
MaxChain == 5          \* commits in the sampler's histories
MaxAppend == 2         \* lines one commit adds to a file
CohortSpan == 2        \* committed dates that share one cohort label

None == 0
Authors == <<"alice", "bob">>
\* the author of the k-th commit: the authors take turns
author_of(k) == Authors[(k % Len(Authors)) + 1]
Texts == {"x"}

(***************************************************************************)
(* Paths and patterns are strings: sequences of characters.                *)
(***************************************************************************)
PathA == <<"a", ".", "p", "y">>
PathB == <<"b", ".", "c">>
PathX == <<"x", ".", "t", "x", "t">>

IGNORE_PYGMENTS_FILETYPES == {<<"*", ".", "t", "x", "t">>, <<"*", ".", "m", "d">>}
PygmentsFiletypes ==
    {<<"*", ".", "p", "y">>, <<"*", ".", "c">>, <<"*", ".", "t", "x", "t">>,
     <<"*", ".", "m", "d">>}
default_filetypes == PygmentsFiletypes \ IGNORE_PYGMENTS_FILETYPES

Max(S) == CHOOSE m \in S : \A n \in S : n <= m

LastIndex(s, ch) == Max({0} \cup {i \in 1..Len(s) : s[i] = ch})

\* os.path.split(path)[-1]
basename(path) == SubSeq(path, LastIndex(path, "/") + 1, Len(path))

\* os.path.splitext(path)[1]
splitext(path) ==
    LET sep == LastIndex(path, "/")
        dot == LastIndex(path, ".")
    IN  IF dot > sep /\ (\E i \in (sep + 1)..(dot - 1) : path[i] # ".")
        THEN SubSeq(path, dot, Len(path))
        ELSE <<>>

\* fnmatch.fnmatch(name, pat) for patterns of literals, ? and *
RECURSIVE fnmatch(_, _)
fnmatch(name, pat) ==
    IF pat = <<>> THEN name = <<>>
    ELSE IF Head(pat) = "*"
         THEN fnmatch(name, Tail(pat))
              \/ (name # <<>> /\ fnmatch(Tail(name), pat))
         ELSE /\ name # <<>>
              /\ (Head(pat) = "?" \/ Head(pat) = Head(name))
              /\ fnmatch(Tail(name), Tail(pat))

\* path_matches with any() for `only`: one matching pattern is enough
path_matches_any(path) ==
    /\ (all_filetypes
           \/ \E filetype \in default_filetypes : fnmatch(basename(path), filetype))
    /\ (only = {} \/ \E pattern \in only : fnmatch(path, pattern))
    /\ ~ \E pattern \in ignore : fnmatch(path, pattern)

\* the expression entry_path_ok memoizes
path_matches(path) ==
    /\ (all_filetypes
           \/ \E filetype \in default_filetypes : fnmatch(basename(path), filetype))
    /\ \A pattern \in only : fnmatch(path, pattern)
    /\ ~ \E pattern \in ignore : fnmatch(path, pattern)

\* entry_path_ok(path), read through the memo ok_entry_paths
entry_path_ok(path) ==
    IF path \in DOMAIN ok_entry_paths THEN ok_entry_paths[path]
    ELSE path_matches(path)

\* ok_entry_paths after entry_path_ok was called on each of `paths`
Memoized(paths) ==
    [p \in DOMAIN ok_entry_paths \cup paths |-> entry_path_ok(p)]

(***************************************************************************)
(* The repository.                                                         *)
(***************************************************************************)
EmptyTree == <<>>

tree(c) == commits[c].tree
committed_date(c) == commits[c].committed_date
Range(s) == {s[i] : i \in DOMAIN s}

RECURSIVE Ancestors(_)
Ancestors(c) == {c} \cup UNION {Ancestors(p) : p \in Range(commits[c].parents)}

Without(t, p) == [q \in DOMAIN t \ {p} |-> t[q]]
With(t, p, lines) == [q \in DOMAIN t \cup {p} |-> IF q = p THEN lines ELSE t[q]]

RemoveAt(s, i) == SubSeq(s, 1, i - 1) \o SubSeq(s, i + 1, Len(s))

\* one commit's edit of its parent's tree `t`; `c` is the new commit
file(t, p) == IF p \in DOMAIN t THEN t[p] ELSE <<>>
AppendLines(t, p, text, n, c) ==
    With(t, p, file(t, p) \o [i \in 1..n |-> [text |-> text, origin |-> c]])
DropLine(t, p, i) ==
    IF Len(t[p]) = 1 THEN Without(t, p) ELSE With(t, p, RemoveAt(t[p], i))
Rename(t, p, q) == With(Without(t, p), q, t[p])

Edits(t, c) ==
    {AppendLines(t, a[1], a[2], a[3], c) :
        a \in {x \in {PathA, PathB} \X Texts \X (1..MaxAppend) :
                  Len(file(t, x[1])) + x[3] <= MaxLines}}
    \cup {DropLine(t, pi[1], pi[2]) :
            pi \in {x \in (DOMAIN t \cap {PathA, PathB}) \X (1..MaxLines) :
                      x[2] <= Len(t[x[1]])}}
    \cup {Rename(t, pq[1], pq[2]) :
            pq \in {x \in {<<PathB, PathX>>, <<PathX, PathB>>} :
                      x[1] \in DOMAIN t /\ x[2] \notin DOMAIN t}}

\* a three-way merge; a path both sides changed keeps the first parent's file
MergeTrees(t1, t2, base) ==
    LET pick(p) == IF file(t1, p) = file(base, p) THEN file(t2, p) ELSE file(t1, p)
    IN  [p \in {q \in DOMAIN t1 \cup DOMAIN t2 : pick(q) # <<>>} |-> pick(p)]

ParentChoices ==
    LET k == Len(commits) + 1
    IN  IF k = 1 THEN {<<>>}
        ELSE {<<k - 1>>}
             \cup (IF k >= 3 /\ commits[k - 1].parents = <<k - 2>>
                   THEN {<<k - 2>>} ELSE {})
             \cup (IF k >= 3 /\ (k - 2) \notin Ancestors(k - 1)
                   THEN {<<k - 1, k - 2>>} ELSE {})

NewTrees(ps) ==
    LET k == Len(commits) + 1
    IN  IF ps = <<>> THEN Edits(EmptyTree, k)
        ELSE IF Len(ps) = 1 THEN Edits(tree(ps[1]), k)
        ELSE {MergeTrees(tree(ps[1]), tree(ps[2]),
                         tree(Max(Ancestors(ps[1]) \cap Ancestors(ps[2]))))}

\* git commit / git merge: the history grows by one commit
GitCommit ==
    /\ pc = "history"
    /\ Len(commits) < MaxCommits
    /\ \E ps \in ParentChoices :
         \E t \in NewTrees(ps) :
            commits' = Append(commits,
                [parents |-> ps, committed_date |-> Len(commits) + 1,
                 author |-> author_of(Len(commits) + 1), tree |-> t])
    /\ UNCHANGED <<pc, branch, head, interval, all_filetypes, only, ignore,
                   commit2cohort, commit2timestamp, curves_set, master_commits,
                   ok_entry_paths, curves, ts, file_histograms, last_commit,
                   commit_history, trace, ret>>

(***************************************************************************)
(* analyze()                                                               *)
(***************************************************************************)
\* datetime.utcfromtimestamp(date).strftime(cohortfm)
strftime(date) == <<"Y", date \div CohortSpan>>
MISSING == <<"MISSING">>

\* "Listing all commits": the call, and the loop over repo.iter_commits(branch)
ListCommits ==
    /\ pc = "history"
    /\ commits # <<>>
    /\ \E b \in DOMAIN commits, h \in DOMAIN commits, iv \in 0..MaxInterval :
         /\ (b = Len(commits) \/ h = Len(commits))
         /\ branch' = b
         /\ head' = h
         /\ interval' = iv
         /\ commit2cohort' = [c \in Ancestors(b) |-> strftime(committed_date(c))]
         /\ curves_set' =
                {<<"cohort", strftime(committed_date(c))>> : c \in Ancestors(b)}
                \cup {<<"author", commits[c].author>> : c \in Ancestors(b)}
         /\ commit2timestamp' =
                [c \in {x \in Ancestors(b) : Len(commits[x].parents) = 1}
                    |-> committed_date(c)]
    /\ pc' = "backtrack"
    /\ UNCHANGED <<commits, all_filetypes, only, ignore, master_commits,
                   ok_entry_paths, curves, ts, file_histograms, last_commit,
                   commit_history, trace, ret>>

\* BacktrackFrom with <= for <: a commit exactly `interval` older is selected
RECURSIVE BacktrackFrom_le(_, _, _)
BacktrackFrom_le(commit, last_date, acc) ==
    IF commits[commit].parents = <<>> THEN acc
    ELSE IF last_date = <<>> \/ committed_date(commit) <= last_date[1] - interval
         THEN BacktrackFrom_le(commits[commit].parents[1],
                               <<committed_date(commit)>>, Append(acc, commit))
         ELSE BacktrackFrom_le(commits[commit].parents[1], last_date, acc)

\* the while loop of "Backtracking the master branch", from `commit` on
RECURSIVE BacktrackFrom(_, _, _)
BacktrackFrom(commit, last_date, acc) ==
    IF commits[commit].parents = <<>> THEN acc
    ELSE IF last_date = <<>> \/ committed_date(commit) < last_date[1] - interval
         THEN BacktrackFrom(commits[commit].parents[1],
                            <<committed_date(commit)>>, Append(acc, commit))
         ELSE BacktrackFrom(commits[commit].parents[1], last_date, acc)

Backtrack ==
    /\ pc = "backtrack"
    /\ master_commits' = BacktrackFrom(head, <<>>, <<>>)
    /\ pc' = "count"
    /\ UNCHANGED <<commits, branch, head, interval, all_filetypes, only, ignore,
                   commit2cohort, commit2timestamp, curves_set,
                   ok_entry_paths, curves, ts, file_histograms, last_commit,
                   commit_history, trace, ret>>

\* blob.size: every line is its text and a newline
blob_size(lines) == 2 * Len(lines)

\* get_blob_entries(commit): the paths of the tree's blobs that pass the filter
get_blob_entries(commit) == {p \in DOMAIN tree(commit) : entry_path_ok(p)}

\* "Counting total entries to analyze + caching filenames"
CountEntries ==
    /\ pc = "count"
    /\ curves_set' = curves_set
          \cup UNION {{<<"ext", splitext(p)>> : p \in get_blob_entries(c)}
                        : c \in Range(master_commits)}
          \cup UNION {{<<"filesize", blob_size(tree(c)[p])>> : p \in get_blob_entries(c)}
                        : c \in Range(master_commits)}
    /\ ok_entry_paths' = Memoized(UNION {DOMAIN tree(c) : c \in Range(master_commits)})
    /\ pc' = "analyze"
    /\ UNCHANGED <<commits, branch, head, interval, all_filetypes, only, ignore,
                   commit2cohort, commit2timestamp, master_commits,
                   curves, ts, file_histograms, last_commit,
                   commit_history, trace, ret>>

\* repo.blame(commit, path): runs of lines with the commit that introduced them
RECURSIVE BlameRuns(_)
BlameRuns(lines) ==
    IF lines = <<>> THEN <<>>
    ELSE LET rest == BlameRuns(Tail(lines))
         IN  IF rest # <<>> /\ rest[1][1] = Head(lines).origin
             THEN <<<<rest[1][1], rest[1][2] + 1>>>> \o Tail(rest)
             ELSE <<<<Head(lines).origin, 1>>>> \o rest
blame(commit, path) == BlameRuns(tree(commit)[path])

\* entry_keys without the commit2timestamp test: the root and merges get a
\* sha key too
entry_keys_allsha(old_commit, path) ==
    LET cohort == IF old_commit \in DOMAIN commit2cohort
                  THEN commit2cohort[old_commit] ELSE MISSING
        size == {q \in get_blob_entries(old_commit) : basename(q) = path}
    IN  {<<"cohort", cohort>>, <<"ext", splitext(path)>>,
         <<"author", commits[old_commit].author>>,
         <<"filesize", IF size # {}
                       THEN blob_size(tree(old_commit)[CHOOSE q \in size : TRUE])
                       ELSE 0>>,
         <<"sha", old_commit>>}

\* the keys one blame entry counts under
entry_keys(old_commit, path) ==
    LET cohort == IF old_commit \in DOMAIN commit2cohort
                  THEN commit2cohort[old_commit] ELSE MISSING
        size == {q \in get_blob_entries(old_commit) : basename(q) = path}
    IN  {<<"cohort", cohort>>, <<"ext", splitext(path)>>,
         <<"author", commits[old_commit].author>>,
         <<"filesize", IF size # {}
                       THEN blob_size(tree(old_commit)[CHOOSE q \in size : TRUE])
                       ELSE 0>>}
        \cup (IF old_commit \in DOMAIN commit2timestamp
              THEN {<<"sha", old_commit>>} ELSE {})

get(h, key) == IF key \in DOMAIN h THEN h[key] ELSE 0

\* the loop over the blame entries: h after `runs` were counted
RECURSIVE CountRuns(_, _, _)
CountRuns(runs, path, h) ==
    IF runs = <<>> THEN h
    ELSE LET keys == entry_keys(Head(runs)[1], path)
         IN  CountRuns(Tail(runs), path,
                 [k \in DOMAIN h \cup keys |->
                     get(h, k) + (IF k \in keys THEN Head(runs)[2] ELSE 0)])

\* get_file_histogram(commit, path) when the loop completes `done` blame
\* entries: all of them, or fewer when an exception ends the loop (and then
\* h is returned as it stands)
get_file_histogram(commit, path, done) ==
    CountRuns(SubSeq(blame(commit, path), 1, done), path, <<>>)

\* the paths commit.diff(other) reports: blobs added, removed or modified
Contents(t, p) == [i \in DOMAIN t[p] |-> t[p][i].text]
diff(t1, t2) ==
    {p \in DOMAIN t1 \cup DOMAIN t2 :
        \/ (p \in DOMAIN t1) # (p \in DOMAIN t2)
        \/ (p \in DOMAIN t1 /\ p \in DOMAIN t2 /\ Contents(t1, p) # Contents(t2, p))}

RECURSIVE SumOver(_, _, _)
SumOver(S, fh, key) ==
    IF S = {} THEN 0
    ELSE LET p == CHOOSE q \in S : TRUE
         IN  get(fh[p], key) + SumOver(S \ {p}, fh, key)

\* checkpoint_histogram with histogram = {} moved out of the loop: the counts
\* of the checkpoints before are still in it
checkpoint_histogram_kept(blobs, fh) ==
    LET before == IF trace = <<>> THEN <<>> ELSE trace[Len(trace)].histogram
    IN  [key \in DOMAIN before \cup UNION {DOMAIN fh[p] : p \in blobs} |->
            get(before, key) + SumOver(blobs, fh, key)]

\* histogram, once the loop over the checkpoint's blobs has added each
\* file's histogram to it
checkpoint_histogram(blobs, fh) ==
    [key \in UNION {DOMAIN fh[p] : p \in blobs} |-> SumOver(blobs, fh, key)]

Failures == LET F[i \in 0..Len(trace)] ==
                    IF i = 0 THEN 0 ELSE F[i - 1] + Cardinality(DOMAIN trace[i].failed)
            IN  F[Len(trace)]

\* one iteration of "Analyzing commit history": the next checkpoint
AnalyzeCommit ==
    /\ pc = "analyze"
    /\ Len(ts) < Len(master_commits)
    /\ LET commit == master_commits[Len(master_commits) - Len(ts)]
           \* commit.diff(None) compares with the working tree: head's checkout
           changed_files == diff(tree(commit),
                                 IF last_commit = None THEN tree(head)
                                 ELSE tree(last_commit))
           blobs == get_blob_entries(commit)
           todo == {p \in blobs : p \in changed_files \/ p \notin DOMAIN file_histograms}
       IN  \E failing \in SUBSET todo :
             /\ Cardinality(failing) + Failures <= MaxFailures
             /\ \E at \in [failing -> 0..(MaxLines - 1)] :
                  /\ \A p \in failing : at[p] < Len(blame(commit, p))
                  /\ LET done(p) == IF p \in failing THEN at[p]
                                    ELSE Len(blame(commit, p))
                     IN  /\ file_histograms' =
                              [p \in DOMAIN file_histograms \cup todo |->
                                 IF p \in todo
                                 THEN get_file_histogram(commit, p, done(p))
                                 ELSE file_histograms[p]]
                         /\ ok_entry_paths' = Memoized(
                              DOMAIN tree(commit)
                              \cup UNION {UNION {DOMAIN tree(blame(commit, p)[i][1])
                                                   : i \in 1..done(p)} : p \in todo})
                  /\ trace' = Append(trace,
                       [commit |-> commit, changed_files |-> changed_files,
                        blobs |-> blobs, computed |-> todo, failed |-> at,
                        histogram |-> checkpoint_histogram(blobs, file_histograms')])
                  /\ LET histogram == trace'[Len(trace')].histogram
                         shas == {key[2] : key \in {k \in DOMAIN histogram : k[1] = "sha"}}
                     IN  /\ commit_history' =
                              [s \in DOMAIN commit_history \cup shas |->
                                 IF s \in shas
                                 THEN Append(IF s \in DOMAIN commit_history
                                             THEN commit_history[s] ELSE <<>>,
                                             <<committed_date(commit), histogram[<<"sha", s>>]>>)
                                 ELSE commit_history[s]]
                         /\ curves' =
                              [key \in DOMAIN curves \cup curves_set |->
                                 IF key \in curves_set
                                 THEN Append(IF key \in DOMAIN curves
                                             THEN curves[key] ELSE <<>>,
                                             get(histogram, key))
                                 ELSE curves[key]]
                  /\ ts' = Append(ts, committed_date(commit))
                  /\ last_commit' = commit
    /\ UNCHANGED <<commits, pc, branch, head, interval, all_filetypes, only, ignore,
                   commit2cohort, commit2timestamp, curves_set, master_commits, ret>>

\* the dump_json calls and the survival dump: curves[key] of a key that has no
\* series raises KeyError, and the run ends there
DumpJson ==
    /\ pc = "analyze"
    /\ Len(ts) = Len(master_commits)
    /\ pc' = IF \A key \in curves_set : key \in DOMAIN curves THEN "done" ELSE "crashed"
    /\ UNCHANGED <<commits, branch, head, interval, all_filetypes, only, ignore,
                   commit2cohort, commit2timestamp, curves_set, master_commits,
                   ok_entry_paths, curves, ts, file_histograms, last_commit,
                   commit_history, trace, ret>>

Init ==
    /\ commits = <<>>
    /\ pc = "history"
    /\ branch = None
    /\ head = None
    /\ interval = 0
    /\ all_filetypes = FALSE
    /\ only = {}
    /\ ignore = {}
    /\ commit2cohort = <<>>
    /\ commit2timestamp = <<>>
    /\ curves_set = {}
    /\ master_commits = <<>>
    /\ ok_entry_paths = <<>>
    /\ curves = <<>>
    /\ ts = <<>>
    /\ file_histograms = <<>>
    /\ last_commit = None
    /\ commit_history = <<>>
    /\ trace = <<>>
    /\ ret = <<>>

Next == GitCommit \/ ListCommits \/ Backtrack \/ CountEntries \/ AnalyzeCommit \/ DumpJson

Spec == Init /\ [][Next]_vars

(***************************************************************************)
(* The sampler alone, over first-parent chains whose commit dates are in   *)
(* any order.                                                              *)
(***************************************************************************)
\* git commit --allow-empty, with any committed date
GitEmptyCommit ==
    /\ pc = "history"
    /\ Len(commits) < MaxChain
    /\ \E date \in 0..MaxDate :
         commits' = Append(commits,
             [parents |-> IF commits = <<>> THEN <<>> ELSE <<Len(commits)>>,
              committed_date |-> date,
              author |-> author_of(Len(commits) + 1), tree |-> EmptyTree])
    /\ UNCHANGED <<pc, branch, head, interval, all_filetypes, only, ignore,
                   commit2cohort, commit2timestamp, curves_set, master_commits,
                   ok_entry_paths, curves, ts, file_histograms, last_commit,
                   commit_history, trace, ret>>

SamplerNext == GitEmptyCommit \/ ListCommits \/ Backtrack

SamplerSpec == Init /\ [][SamplerNext]_vars

(***************************************************************************)
(* The file filter alone, over the filter's parameters.                    *)
(***************************************************************************)
PatPy == <<"*", ".", "p", "y">>
PatTestPy == <<"t", "e", "s", "t", "_", "*", ".", "p", "y">>
PatA == <<"a", "*">>
PatAny == <<"?", ".", "*">>
PatB == <<"b", "*">>
FileTestA == <<"t", "e", "s", "t", "_", "a", ".", "p", "y">>
FileBTxt == <<"b", ".", "t", "x", "t">>
FileBPy == <<"b", ".", "p", "y">>
FileDirA == <<"d", "/", "a", ".", "p", "y">>
FilterPaths == {PathA, FileTestA, FileBTxt, FileBPy, FileDirA}

FilterInit ==
    /\ commits = <<>>
    /\ pc = "filter"
    /\ branch = None
    /\ head = None
    /\ interval = 0
    /\ all_filetypes \in BOOLEAN
    /\ only \in SUBSET {PatPy, PatA, PatAny}
    /\ ignore \in SUBSET {PatTestPy, PatB}
    /\ commit2cohort = <<>>
    /\ commit2timestamp = <<>>
    /\ curves_set = {}
    /\ master_commits = <<>>
    /\ ok_entry_paths = <<>>
    /\ curves = <<>>
    /\ ts = <<>>
    /\ file_histograms = <<>>
    /\ last_commit = None
    /\ commit_history = <<>>
    /\ trace = <<>>
    /\ ret = <<>>

\* one call of entry_path_ok
EntryPathOk ==
    /\ pc = "filter"
    /\ \E path \in FilterPaths :
         /\ ret' = [path |-> path, value |-> entry_path_ok(path)]
         /\ ok_entry_paths' = Memoized({path})
    /\ UNCHANGED <<commits, pc, branch, head, interval, all_filetypes, only, ignore,
                   commit2cohort, commit2timestamp, curves_set, master_commits,
                   curves, ts, file_histograms, last_commit,
                   commit_history, trace>>

FilterNext == EntryPathOk

FilterSpec == FilterInit /\ [][FilterNext]_vars

(***************************************************************************)
(* The claims.                                                             *)
(***************************************************************************)
reversed(s) == [i \in 1..Len(s) |-> s[Len(s) + 1 - i]]

RECURSIVE SumF(_, _)
SumF(S, f) ==
    IF S = {} THEN 0
    ELSE LET x == CHOOSE y \in S : TRUE IN f[x] + SumF(S \ {x}, f)

\* the sum of the i-th entries of the time series of one kind
SeriesSum(kind, i) ==
    LET keys == {key \in curves_set : key[1] = kind}
    IN  SumF(keys, [key \in keys |-> curves[key][i]])

\* the lines in the trackable blobs of the i-th checkpoint's tree
TotalLines(i) ==
    SumF(trace[i].blobs, [p \in trace[i].blobs |-> Len(tree(trace[i].commit)[p])])

\* the checkpoint at which the histogram served for p at checkpoint i was computed
LastComputed(i, p) == Max({j \in 1..i : p \in trace[j].computed})

FullHistogram(commit, path) ==
    get_file_histogram(commit, path, Len(blame(commit, path)))

RECURSIVE FirstParentChain(_)
FirstParentChain(c) ==
    {c} \cup (IF commits[c].parents = <<>> THEN {}
              ELSE FirstParentChain(commits[c].parents[1]))

(* C1: at every processed checkpoint the cohort, ext and author series
   entries each sum to the number of lines in the trackable blobs of the
   checkpoint's tree. *)
C1_PartitionSums ==
    \A i \in 1..Len(trace) :
        /\ SeriesSum("cohort", i) = TotalLines(i)
        /\ SeriesSum("ext", i) = TotalLines(i)
        /\ SeriesSum("author", i) = TotalLines(i)

(* C2: at a checkpoint after the first, the histogram served from the cache
   for a path (the path is not in changed_files and was cached) equals the
   histogram get_file_histogram computes for it at that checkpoint. *)
C2_CacheEquivalence ==
    Len(trace) > 1 =>
       LET i == Len(trace)
       IN  \A p \in trace[i].blobs \ trace[i].computed :
              file_histograms[p] = FullHistogram(trace[i].commit, p)

\* the position in ts of the checkpoint an entry of commit_history was recorded at
CheckpointOf(entry) == CHOOSE i \in 1..Len(ts) : ts[i] = entry[1]

NonIncreasing(sha) ==
    \A k \in 1..(Len(commit_history[sha]) - 1) :
        /\ commit_history[sha][k + 1][2] <= commit_history[sha][k][2]
        /\ CheckpointOf(commit_history[sha][k + 1]) = CheckpointOf(commit_history[sha][k]) + 1

(* C3, as stated: for every source commit of commit_history the recorded
   counts never increase, and no entry is recorded for it after a checkpoint
   that recorded none. *)
C3_Original == \A sha \in DOMAIN commit_history : NonIncreasing(sha)

IsRename(c) ==
    /\ Len(commits[c].parents) = 1
    /\ \E p \in DOMAIN tree(commits[c].parents[1]) \ DOMAIN tree(c),
          q \in DOMAIN tree(c) \ DOMAIN tree(commits[c].parents[1]) :
            tree(c)[q] = tree(commits[c].parents[1])[p]

PlainRun ==
    /\ head # None
    /\ \A c \in Ancestors(head) : Len(commits[c].parents) <= 1 /\ ~IsRename(c)
    /\ \A i \in 1..Len(trace) : DOMAIN trace[i].failed = {}

(* C3, amended: when HEAD's history has no merge and no rename and no blame
   call raises, for every source commit of commit_history the recorded counts
   never increase, and no entry is recorded for it after a checkpoint that
   recorded none. *)
C3_SurvivalNonIncreasing ==
    PlainRun => \A sha \in DOMAIN commit_history : NonIncreasing(sha)

C3_Witness ==
    /\ PlainRun
    /\ pc = "done"
    /\ \E sha \in DOMAIN commit_history :
          /\ Len(commit_history[sha]) = 2
          /\ commit_history[sha][2][2] < commit_history[sha][1][2]
          /\ CheckpointOf(commit_history[sha][2]) < Len(ts)

\* three commits in a line, each adding one line to a.py; interval = 0
ThreeCommits ==
    /\ pc = "done"
    /\ Len(commits) = 3
    /\ \A c \in 1..3 :
          /\ commits[c].parents = (IF c = 1 THEN <<>> ELSE <<c - 1>>)
          /\ tree(c) = (PathA :> [i \in 1..c |-> [text |-> "x", origin |-> i]])
    /\ committed_date(1) < committed_date(2)
    /\ committed_date(2) < committed_date(3)
    /\ branch = 3
    /\ head = 3
    /\ interval = 0
    /\ \A i \in 1..Len(trace) : DOMAIN trace[i].failed = {}

CohortTotals == [i \in 1..Len(ts) |-> SeriesSum("cohort", i)]

(* C4, as stated: the run over the three commits has three checkpoints, the
   cohort totals are 1, 2, 3, and the survival document has three entries of
   one (timestamp, 1) pair each. *)
C4_Original ==
    ThreeCommits =>
        /\ Len(master_commits) = 3
        /\ CohortTotals = <<1, 2, 3>>
        /\ Cardinality(DOMAIN commit_history) = 3
        /\ \A sha \in DOMAIN commit_history :
              Len(commit_history[sha]) = 1 /\ commit_history[sha][1][2] = 1

(* C4, amended: the run over the three commits (no blame call raising) has
   two checkpoints, the middle commit and the tip; the cohort totals are
   2, 3; the survival document has two entries: the middle commit with a
   (timestamp, 1) pair at each checkpoint and the tip with one pair. *)
C4_ThreeCommits ==
    ThreeCommits =>
        /\ reversed(master_commits) = <<2, 3>>
        /\ CohortTotals = <<2, 3>>
        /\ DOMAIN commit_history = {2, 3}
        /\ commit_history[2] = <<<<committed_date(2), 1>>, <<committed_date(3), 1>>>>
        /\ commit_history[3] = <<<<committed_date(3), 1>>>>

C4_Witness == ThreeCommits

(* C5: the checkpoints in processing order are strictly ascending by commit
   date, and consecutive checkpoints are at least `interval` apart. *)
C5_CheckpointsSpaced ==
    LET c == reversed(master_commits)
    IN  \A i \in 1..(Len(c) - 1) :
           /\ committed_date(c[i]) < committed_date(c[i + 1])
           /\ committed_date(c[i + 1]) - committed_date(c[i]) >= interval

C5_Witness ==
    /\ pc = "count"
    /\ Len(master_commits) >= 3
    /\ interval >= 1
    /\ \E k \in 2..head : committed_date(k - 1) > committed_date(k)
    /\ \E k \in 2..head : k \notin Range(master_commits)

\* once a checkpoint is processed, and at export whatever the number of
\* checkpoints, every key of curves_set has a time series as long as ts
SeriesAligned ==
    ((pc = "analyze" /\ ts # <<>>) \/ pc \in {"done", "crashed"}) =>
        \A key \in curves_set :
            key \in DOMAIN curves /\ Len(curves[key]) = Len(ts)

(* C6: curves_set does not change while checkpoints are processed, and
   after any number of checkpoints (none included, judged at export) every
   key of curves_set has a time series as long as ts. *)
C6_UniverseFixedAndAligned ==
    /\ [][pc = "analyze" => curves_set' = curves_set]_vars
    /\ []SeriesAligned

(* C7: at the checkpoint just processed, a path whose blame call raised has
   an empty histogram, and every other path has the histogram it would have
   had no call raised: the full histogram of the checkpoint it was last
   computed at. *)
C7_FailureContained ==
    Len(trace) >= 1 =>
       LET i == Len(trace)
       IN  \A p \in trace[i].blobs :
              IF p \in DOMAIN trace[i].failed
              THEN file_histograms[p] = <<>>
              ELSE file_histograms[p] =
                      FullHistogram(trace[LastComputed(i, p)].commit, p)

(* C8: when lines of a checkpoint are attributed to a commit missing from
   the cohort map, the fallback cohort key has a time series holding their
   count, and the cohort total equals the ext total. *)
C8_FallbackRecorded ==
    \A i \in 1..Len(trace) :
        <<"cohort", MISSING>> \in DOMAIN trace[i].histogram =>
            /\ <<"cohort", MISSING>> \in DOMAIN curves
            /\ curves[<<"cohort", MISSING>>][i] = trace[i].histogram[<<"cohort", MISSING>>]
            /\ SeriesSum("cohort", i) = SeriesSum("ext", i)

(* C9: every checkpoint is on the first-parent chain of the configured
   branch, and every ancestor of a checkpoint is in the cohort map, its
   author in the key universe. *)
C9_SameReference ==
    \A c \in Range(master_commits) :
        /\ c \in FirstParentChain(branch)
        /\ \A a \in Ancestors(c) :
              /\ a \in DOMAIN commit2cohort
              /\ <<"author", commits[a].author>> \in curves_set

\* the three conditions, with `only` read as: every pattern matches
Trackable(path) ==
    /\ (all_filetypes
           \/ \E filetype \in default_filetypes : fnmatch(basename(path), filetype))
    /\ \A pattern \in only : fnmatch(path, pattern)
    /\ \A pattern \in ignore : ~fnmatch(path, pattern)

\* the three conditions, with `only` read as: empty, or some pattern matches
TrackableSome(path) ==
    /\ (all_filetypes
           \/ \E filetype \in default_filetypes : fnmatch(basename(path), filetype))
    /\ (only = {} \/ \E pattern \in only : fnmatch(path, pattern))
    /\ \A pattern \in ignore : ~fnmatch(path, pattern)

ScenarioHolds ==
    (~all_filetypes /\ only = {PatPy} /\ ignore = {PatTestPy} /\ ret # <<>>
       /\ ret.path \in {PathA, FileTestA, FileBTxt})
    => (ret.value <=> ret.path = PathA)

(* C10, as stated: entry_path_ok is true exactly when the filetype condition
   holds, `only` is empty or one of its patterns matches, and no pattern of
   `ignore` matches. *)
C10_Original ==
    /\ ret # <<>> => (ret.value <=> TrackableSome(ret.path))
    /\ \A p \in DOMAIN ok_entry_paths : ok_entry_paths[p] <=> TrackableSome(p)
    /\ ScenarioHolds

(* C10, amended: entry_path_ok is true exactly when the filetype condition
   holds, every pattern of `only` matches the path, and no pattern of
   `ignore` matches; the scenario holds, and a memoized answer is the
   answer a fresh computation gives. *)
C10_EntryPathOk ==
    /\ ret # <<>> => (ret.value <=> Trackable(ret.path))
    /\ \A p \in DOMAIN ok_entry_paths : ok_entry_paths[p] <=> Trackable(p)
    /\ ScenarioHolds

C10_Witness ==
    /\ only = {PatPy, PatA}
    /\ ignore = {PatTestPy}
    /\ ret # <<>>
    /\ ret.path = FileBPy
    /\ ~ret.value
    /\ FileBPy \in DOMAIN ok_entry_paths
    /\ PathA \in DOMAIN ok_entry_paths
    /\ ok_entry_paths[PathA]
====
